---- MODULE Spec2Model ----
(***************************************************************************)
(* Model of the evaluation pipeline of eval_om.py (load_response_id,       *)
(* load_ground_truth, load_jsonl, judge_with_llm, evaluate_logs, eval_om)  *)
(* and of the background job of app.py (run_eval_job).                     *)
(*                                                                         *)
(* Python dicts are functions; d.get(k, default) is Get(d, k, default).    *)
(* A Python None held where a string is expected is the string PyNone; a   *)
(* None held where a number, a boolean or a dict is expected is the empty  *)
(* sequence None, and the value v is then <<v>>.                           *)
(***************************************************************************)
EXTENDS Integers, Sequences, FiniteSets, TLC

\* Longest response log (number of lines of the responses_<date>.jsonl file).
MaxLog == 2

PyNone == "<None>"
None == <<>>
Some(v) == <<v>>

\* Python truthiness of a string-or-None value.
Falsy(s) == s \in {PyNone, ""}

\* The empty dict {}.
EmptyDict == [k \in {} |-> PyNone]

\* The dict d with d[k] = v set (a later write wins).
Put(d, k, v) == [x \in DOMAIN d \cup {k} |-> IF x = k THEN v ELSE d[x]]

Get(d, k, default) == IF k \in DOMAIN d THEN d[k] ELSE default

\* All sequences over S of length at most n.
SeqUpTo(S, n) == UNION {[1..k -> S] : k \in 0..n}

-----------------------------------------------------------------------------
(* Files the pipeline reads.  A file is [exists, lines]; a line of a log  *)
(* is a JSON object (a record), a blank line or a line that is not JSON.   *)

NoFile == [exists |-> FALSE, lines |-> <<>>]
File(ls) == [exists |-> TRUE, lines |-> ls]

\* A log line that is not valid JSON, and a blank log line.
Malformed == [malformed |-> TRUE]
Blank == [blank |-> TRUE]
\* An empty cell of the ground-truth table (pandas reads it as NaN).
NaN == "<NaN>"

\* The response-identifier file: absent, empty, or one line each.
ResponseIdFiles ==
    { NoFile, File(<<>>), File(<<"r1\n">>), File(<<"\n">>) }

\* The ground-truth table: absent, or rows holding the cells of its columns
\* (the second table has no Source_Name column).
GroundTruthFiles ==
    { NoFile,
      File(<< [Question |-> " Q1 ", Answers |-> "A0", Source_Name |-> "docB"],
              [Question |-> "Q1", Answers |-> "A1", Source_Name |-> "docA"],
              [Question |-> "Q2", Answers |-> " ", Source_Name |-> " "] >>),
      File(<< [Question |-> "Q1", Answers |-> "A1"],
              [Question |-> "Q2", Answers |-> NaN],
              [Question |-> " ", Answers |-> "A2"] >>) }

\* The routing log: absent, or lines (records, blank or malformed lines).
RoutingFiles ==
    { NoFile,
      File(<< [orchestrator_request_id |-> "o1", question |-> "Q1",
               selected_sources |-> <<"docB", "docA">>] >>),
      File(<< [orchestrator_request_id |-> "o1", question |-> "Q2",
               selected_sources |-> <<"docA">>],
              Blank,
              [orchestrator_request_id |-> "o2", question |-> "Q2"],
              [orchestrator_request_id |-> "o1", question |-> "Q1",
               selected_sources |-> <<"docB", "docC">>] >>),
      File(<< [orchestrator_request_id |-> "o1", question |-> "Q1",
               selected_sources |-> <<"docA">>],
              Malformed >>) }

\* The records a response-log line can hold: previous_response_id is a
\* string, null, or absent from the record.
ResponseRecords ==
    { [response_id |-> r, previous_response_id |-> p,
       orchestrator_request_id |-> o, assistant_response |-> a] :
         r \in {"r1", "r2"}, p \in {PyNone, "p0"}, o \in {"o1", "o2"},
         a \in {"", "A1"} }
    \cup
    { [response_id |-> r, orchestrator_request_id |-> o,
       assistant_response |-> a] :
         r \in {"r1", "r2"}, o \in {"o1", "o2"}, a \in {"", "A1"} }

ResponseLines == ResponseRecords \cup {Malformed}

ResponseFiles == {NoFile} \cup {File(ls) : ls \in SeqUpTo(ResponseLines, MaxLog)}

\* What the judge endpoint can do with one request: the request throws, or
\* it returns a body (not JSON, a JSON list, a JSON object with the keys of
\* "object") with or without usage metadata [prompt_tokens, completion_tokens].
JudgeReplies ==
    { [raises |-> TRUE, json |-> "none", object |-> EmptyDict, usage |-> None],
      [raises |-> FALSE, json |-> "invalid", object |-> EmptyDict,
       usage |-> Some(<<10, 2>>)],
      [raises |-> FALSE, json |-> "list", object |-> EmptyDict,
       usage |-> Some(<<10, 2>>)],
      [raises |-> FALSE, json |-> "object",
       object |-> [correctness |-> 4, relevance |-> 5], usage |-> None],
      [raises |-> FALSE, json |-> "object",
       object |-> [correctness |-> 4, relevance |-> 5],
       usage |-> Some(<<10, 2>>)],
      [raises |-> FALSE, json |-> "object",
       object |-> [correctness |-> 4], usage |-> Some(<<10, 2>>)] }

-----------------------------------------------------------------------------
(* The loaders.                                                            *)

\* str.strip() on the strings the files above hold.
Strip(s) ==
    CASE s = "r1\n" -> "r1"
      [] s = "\n"   -> ""
      [] s = " Q1 " -> "Q1"
      [] s = " "    -> ""
      [] OTHER      -> s

\* str(cell) of a table cell: an empty cell (NaN) prints as "nan".
Str(cell) == IF cell = NaN THEN "nan" ELSE cell

\* load_response_id: open() throws when the file is absent; otherwise every
\* line, stripped.
load_response_id(file) ==
    IF ~file.exists
    THEN [exc |-> "FileNotFoundError", value |-> <<>>]
    ELSE [exc |-> PyNone,
          value |-> [i \in 1..Len(file.lines) |-> Strip(file.lines[i])]]

\* The loop of load_ground_truth over the first n rows.
RECURSIVE GroundTruthOf(_, _)
GroundTruthOf(rows, n) ==
    IF n = 0 THEN EmptyDict
    ELSE LET gt == GroundTruthOf(rows, n - 1)
             row == rows[n]
             question == Strip(Str(Get(row, "Question", "")))
             answer == Strip(Str(Get(row, "Answers", "")))
             source_name == Strip(Str(Get(row, "Source_Name", "")))
         IN  IF question # ""
             THEN Put(gt, question,
                      [answer |-> answer, source_name |-> source_name])
             ELSE gt

load_ground_truth(file) ==
    IF ~file.exists THEN EmptyDict
    ELSE GroundTruthOf(file.lines, Len(file.lines))

\* The loop of load_jsonl over the first n lines: blank lines are skipped and
\* json.loads throws on a line that is not JSON.
RECURSIVE JsonlOf(_, _)
JsonlOf(lines, n) ==
    IF n = 0 THEN [exc |-> PyNone, value |-> <<>>]
    ELSE LET sofar == JsonlOf(lines, n - 1)
         IN  IF sofar.exc # PyNone THEN sofar
             ELSE IF lines[n] = Blank THEN sofar
             ELSE IF lines[n] = Malformed
                  THEN [exc |-> "JSONDecodeError", value |-> <<>>]
             ELSE [exc |-> PyNone, value |-> Append(sofar.value, lines[n])]

load_jsonl(file) ==
    IF ~file.exists THEN [exc |-> PyNone, value |-> <<>>]
    ELSE JsonlOf(file.lines, Len(file.lines))

\* routing_lookup = {r['orchestrator_request_id']: r for r in routing_logs}
RECURSIVE RoutingLookupOf(_, _)
RoutingLookupOf(logs, n) ==
    IF n = 0 THEN EmptyDict
    ELSE Put(RoutingLookupOf(logs, n - 1),
             logs[n].orchestrator_request_id, logs[n])

\* The grouping loop with the list of a response_id replaced, not extended,
\* by each of its entries.
RECURSIVE ConversationsOverwriting(_, _, _)
ConversationsOverwriting(logs, lookup, n) ==
    IF n = 0 THEN [keys |-> <<>>, groups |-> EmptyDict]
    ELSE LET c == ConversationsOverwriting(logs, lookup, n - 1)
             resp == logs[n]
             orch_id == Get(resp, "orchestrator_request_id", PyNone)
             response_id == Get(resp, "response_id", PyNone)
             turn_data ==
                 [response |-> resp,
                  routing |-> IF orch_id \in DOMAIN lookup
                              THEN Some(lookup[orch_id]) ELSE None]
         IN  [keys |-> IF response_id \in DOMAIN c.groups THEN c.keys
                       ELSE Append(c.keys, response_id),
              groups |-> Put(c.groups, response_id, <<turn_data>>)]

\* The grouping loop of evaluate_logs over the first n response records:
\* keys holds the response_ids in order of first encounter (the dict's
\* iteration order) and groups the list of each.
RECURSIVE ConversationsOf(_, _, _)
ConversationsOf(logs, lookup, n) ==
    IF n = 0 THEN [keys |-> <<>>, groups |-> EmptyDict]
    ELSE LET c == ConversationsOf(logs, lookup, n - 1)
             resp == logs[n]
             orch_id == Get(resp, "orchestrator_request_id", PyNone)
             response_id == Get(resp, "response_id", PyNone)
             turn_data ==
                 [response |-> resp,
                  routing |-> IF orch_id \in DOMAIN lookup
                              THEN Some(lookup[orch_id]) ELSE None]
         IN  IF response_id \in DOMAIN c.groups
             THEN [keys |-> c.keys,
                   groups |-> Put(c.groups, response_id,
                                  Append(c.groups[response_id], turn_data))]
             ELSE [keys |-> Append(c.keys, response_id),
                   groups |-> Put(c.groups, response_id, <<turn_data>>)]

-----------------------------------------------------------------------------
(* The judge.                                                              *)

empty_judge_scores ==
    [judge_correctness |-> None, judge_relevance |-> None,
     judge_usage_input |-> None, judge_usage_output |-> None]

LLM_JUDGE_ENABLED == TRUE

\* The exception the body of judge_with_llm's try block throws on a reply,
\* PyNone when it throws none.
JudgeBodyException(reply) ==
    IF reply.raises THEN "APIConnectionError"
    ELSE IF reply.json = "invalid" THEN "JSONDecodeError"
    ELSE IF reply.json = "list" THEN "AttributeError"
    ELSE IF reply.usage = None THEN "AttributeError"
    ELSE PyNone

\* judge_with_llm returning from its except clause the scores read before
\* the exception instead of the placeholder.
JudgeKeepingPartialScores(reply) ==
    IF ~LLM_JUDGE_ENABLED THEN [exc |-> PyNone, scores |-> empty_judge_scores]
    ELSE IF JudgeBodyException(reply) # PyNone /\ reply.json # "object"
         THEN [exc |-> PyNone, scores |-> empty_judge_scores]
    ELSE [exc |-> PyNone,
          scores |->
            [judge_correctness |->
                 IF "correctness" \in DOMAIN reply.object
                 THEN Some(reply.object["correctness"]) ELSE None,
             judge_relevance |->
                 IF "relevance" \in DOMAIN reply.object
                 THEN Some(reply.object["relevance"]) ELSE None,
             judge_usage_input |->
                 IF reply.usage # None THEN Some(reply.usage[1][1]) ELSE None,
             judge_usage_output |->
                 IF reply.usage # None THEN Some(reply.usage[1][2]) ELSE None]]

\* judge_with_llm: [exc, scores], exc being the exception that leaves the
\* function.  The except clause catches every exception of the body.
judge_with_llm(reply) ==
    IF ~LLM_JUDGE_ENABLED THEN [exc |-> PyNone, scores |-> empty_judge_scores]
    ELSE IF JudgeBodyException(reply) # PyNone
         THEN [exc |-> PyNone, scores |-> empty_judge_scores]
    ELSE [exc |-> PyNone,
          scores |->
            [judge_correctness |->
                 IF "correctness" \in DOMAIN reply.object
                 THEN Some(reply.object["correctness"]) ELSE None,
             judge_relevance |->
                 IF "relevance" \in DOMAIN reply.object
                 THEN Some(reply.object["relevance"]) ELSE None,
             judge_usage_input |-> Some(reply.usage[1][1]),
             judge_usage_output |-> Some(reply.usage[1][2])]]

-----------------------------------------------------------------------------
(* The state of one job: run_eval_job calling eval_om calling              *)
(* evaluate_logs.                                                          *)

VARIABLES
    pc,             \* where the job is
    opened,         \* the input files the job has opened or looked for
    response_ids,   \* the identifier list eval_om loaded for the job
    ground_truth,   \* eval_om: the loaded ground truth
    response_logs,  \* evaluate_logs: the loaded response log
    conversations,  \* evaluate_logs: [keys, groups], response_id -> turns
    results,        \* evaluate_logs: the rows built so far
    conv_idx,       \* evaluate_logs: the conversation counter
    turn,           \* evaluate_logs: the turn counter, None while unbound
    judge_log,      \* the requests the judge endpoint has received
    report,         \* the eval_<date>.csv file: None, or Some(rows written)
    exc,            \* the exception propagating out of eval_om, or PyNone
    returned,       \* [evaluate_logs, eval_om]: what each returned
    payload         \* the webhook payload sent, None before

vars == <<pc, opened, response_ids, ground_truth, response_logs,
          conversations, results, conv_idx, turn, judge_log, report, exc,
          returned, payload>>

NoConversations == [keys |-> <<>>, groups |-> EmptyDict]
NotReturned == [evaluate_logs |-> None, eval_om |-> None]

Init ==
    /\ pc = "start"
    /\ opened = {}
    /\ response_ids = <<>>
    /\ ground_truth = EmptyDict
    /\ response_logs = <<>>
    /\ conversations = NoConversations
    /\ results = <<>>
    /\ conv_idx = -1
    /\ turn = None
    /\ judge_log = <<>>
    /\ report = None
    /\ exc = PyNone
    /\ returned = NotReturned
    /\ payload = None

\* An exception leaves evaluate_logs and eval_om: their locals are gone.
Raise(e) ==
    /\ pc' = "raised"
    /\ exc' = e
    /\ ground_truth' = EmptyDict
    /\ response_logs' = <<>>
    /\ conversations' = NoConversations
    /\ results' = <<>>
    /\ conv_idx' = -1
    /\ turn' = None

\* eval_om without its own test of an empty identifier list.
EvalOmLoadIdsUngated ==
    /\ pc = "start"
    /\ opened' = opened \cup {"response_ids"}
    /\ \E file \in ResponseIdFiles :
         LET loaded == load_response_id(file)
         IN  IF loaded.exc # PyNone
             THEN /\ Raise(loaded.exc)
                  /\ UNCHANGED <<response_ids, judge_log, report, returned,
                                 payload>>
             ELSE /\ pc' = "ids"
                  /\ response_ids' = loaded.value
                  /\ UNCHANGED <<ground_truth, response_logs, conversations,
                                 results, conv_idx, turn, judge_log, report,
                                 exc, returned, payload>>

\* run_eval_job calls eval_om, which loads the identifier list and returns
\* at once when it is empty.
EvalOmLoadIds ==
    /\ pc = "start"
    /\ opened' = opened \cup {"response_ids"}
    /\ \E file \in ResponseIdFiles :
         LET loaded == load_response_id(file)
         IN  IF loaded.exc # PyNone
             THEN /\ Raise(loaded.exc)
                  /\ UNCHANGED <<response_ids, judge_log, report, returned,
                                 payload>>
             ELSE /\ pc' = IF Len(loaded.value) = 0 THEN "returned" ELSE "ids"
                  /\ response_ids' = loaded.value
                  /\ UNCHANGED <<ground_truth, response_logs, conversations,
                                 results, conv_idx, turn, judge_log, report,
                                 exc, returned, payload>>

\* eval_om loads the ground truth.
EvalOmLoadGroundTruth ==
    /\ pc = "ids"
    /\ \E file \in GroundTruthFiles :
         ground_truth' = load_ground_truth(file)
    /\ opened' = opened \cup {"ground_truth"}
    /\ pc' = "gt"
    /\ UNCHANGED <<response_ids, response_logs, conversations, results,
                   conv_idx, turn, judge_log, report, exc, returned, payload>>

\* evaluate_logs up to its main loop: the gate on the identifier list, the
\* two logs, the routing lookup and the grouping by response_id.
EvaluateLogsLoad ==
    /\ pc = "gt"
    /\ IF Len(response_ids) = 0
       THEN /\ pc' = "returned"
            /\ UNCHANGED <<opened, response_ids, ground_truth, response_logs,
                           conversations, results, conv_idx, turn, judge_log,
                           report, exc, returned, payload>>
       ELSE \E routing_file \in RoutingFiles, response_file \in ResponseFiles :
              LET routing_logs == load_jsonl(routing_file)
                  loaded == load_jsonl(response_file)
              IN  IF routing_logs.exc # PyNone
                  THEN /\ Raise(routing_logs.exc)
                       /\ opened' = opened \cup {"routing"}
                       /\ UNCHANGED <<response_ids, judge_log, report,
                                      returned, payload>>
                  ELSE IF loaded.exc # PyNone
                  THEN /\ Raise(loaded.exc)
                       /\ opened' = opened \cup {"routing", "responses"}
                       /\ UNCHANGED <<response_ids, judge_log, report,
                                      returned, payload>>
                  ELSE /\ pc' = "loop"
                       /\ opened' = opened \cup {"routing", "responses"}
                       /\ response_logs' = loaded.value
                       /\ conversations' =
                            ConversationsOf(
                              loaded.value,
                              RoutingLookupOf(routing_logs.value,
                                              Len(routing_logs.value)),
                              Len(loaded.value))
                       /\ results' = <<>>
                       /\ conv_idx' = -1
                       /\ turn' = None
                       /\ UNCHANGED <<response_ids, ground_truth, judge_log,
                                      report, exc, returned, payload>>

-----------------------------------------------------------------------------
(* The main loop of evaluate_logs.                                         *)

\* The order in which the nested loops visit the turns: group after group
\* in the dict's iteration order, each group in its list order.
RECURSIVE OrderOf(_, _)
OrderOf(c, n) ==
    IF n = 0 THEN <<>>
    ELSE OrderOf(c, n - 1) \o c.groups[c.keys[n]]

Order == OrderOf(conversations, Len(conversations.keys))

Elems(seq) == {seq[i] : i \in DOMAIN seq}

\* sep.join(seq)
RECURSIVE Join(_, _)
Join(sep, seq) ==
    IF Len(seq) = 0 THEN ""
    ELSE IF Len(seq) = 1 THEN seq[1]
    ELSE seq[1] \o sep \o Join(sep, Tail(seq))

\* selected_sources = routing.get('selected_sources', []) if routing else []
SelectedSources(routing) ==
    IF routing # None THEN Get(routing[1], "selected_sources", <<>>)
    ELSE <<>>

\* routing_correct without the guard on an empty expected source.
RoutingCorrectUnguarded(expected_source, selected_sources) ==
    Some(expected_source \in Elems(selected_sources))

\* routing_correct = expected_source in selected_sources
\*                       if expected_source else None
RoutingCorrect(expected_source, selected_sources) ==
    IF ~Falsy(expected_source)
    THEN Some(expected_source \in Elems(selected_sources))
    ELSE None

\* Whether the turn is sent to the judge.
Judged(reference_answer, generated_answer) ==
    ~Falsy(reference_answer) /\ ~Falsy(generated_answer)

\* The error of a skipped turn without the test of reference_answer.
SkipErrorAlways(reference_answer) == "No ground truth available"

\* The error of a turn that is not sent to the judge.
SkipError(reference_answer) ==
    IF Falsy(reference_answer) THEN "No ground truth available" ELSE PyNone

\* The result dict of one turn.
Result(resp, routing, conv, trn, gt, judge_scores, error) ==
    LET user_query == Get(routing[1], "question", "")
        entry == Get(gt, user_query, EmptyDict)
        reference_answer == Get(entry, "answer", "")
        expected_source == Get(entry, "source_name", "")
        selected_sources == SelectedSources(routing)
    IN  [response_id |-> Get(resp, "response_id", ""),
         conversation_id |-> conv,
         turn |-> trn,
         question |-> user_query,
         reference_answer |-> reference_answer,
         generated_answer |-> Get(resp, "assistant_response", ""),
         error |-> IF Falsy(error) THEN "" ELSE error,
         routing_correct |-> RoutingCorrect(expected_source, selected_sources),
         expected_sources |-> expected_source,
         selected_sources |->
             IF Len(selected_sources) > 0 THEN Join(",", selected_sources)
             ELSE "",
         judge_correctness |-> judge_scores.judge_correctness,
         judge_relevance |-> judge_scores.judge_relevance,
         judge_usage_input |-> judge_scores.judge_usage_input,
         judge_usage_output |-> judge_scores.judge_usage_output]

\* conv_idx incremented at every entry.
NextConvAlways(previous_response_id, conv) == conv + 1

\* turn not incremented on a continuation.
NextTurnStuck(previous_response_id, trn) ==
    IF Falsy(previous_response_id) THEN 1 ELSE trn[1]

\* conv_idx after the branch on previous_response_id.
NextConv(previous_response_id, conv) ==
    IF Falsy(previous_response_id) THEN conv + 1 ELSE conv

\* turn after the branch on previous_response_id (turn is bound, or the
\* branch binds it).
NextTurn(previous_response_id, trn) ==
    IF Falsy(previous_response_id) THEN 1 ELSE trn[1] + 1

\* One iteration of the loop body.
EvaluateLogsTurn ==
    /\ pc = "loop"
    /\ Len(results) < Len(Order)
    /\ LET turn_data == Order[Len(results) + 1]
           resp == turn_data.response
           routing == turn_data.routing
       IN  IF "previous_response_id" \notin DOMAIN resp
           THEN /\ Raise("KeyError")
                /\ UNCHANGED <<opened, response_ids, judge_log, report,
                               returned, payload>>
           ELSE IF ~Falsy(resp.previous_response_id) /\ turn = None
           THEN /\ Raise("UnboundLocalError")
                /\ UNCHANGED <<opened, response_ids, judge_log, report,
                               returned, payload>>
           ELSE IF routing = None
           THEN /\ Raise("AttributeError")
                /\ UNCHANGED <<opened, response_ids, judge_log, report,
                               returned, payload>>
           ELSE
             LET conv == NextConv(resp.previous_response_id, conv_idx)
                 trn == NextTurn(resp.previous_response_id, turn)
                 user_query == Get(routing[1], "question", "")
                 generated_answer == Get(resp, "assistant_response", "")
                 reference_answer ==
                     Get(Get(ground_truth, user_query, EmptyDict), "answer", "")
             IN  /\ conv_idx' = conv
                 /\ turn' = Some(trn)
                 /\ IF Judged(reference_answer, generated_answer)
                    THEN \E reply \in JudgeReplies :
                           LET judged == judge_with_llm(reply)
                           IN  /\ results' = Append(results,
                                    Result(resp, routing, conv, trn,
                                           ground_truth,
                                           IF judged.exc # PyNone
                                           THEN empty_judge_scores
                                           ELSE judged.scores,
                                           judged.exc))
                               /\ judge_log' =
                                    IF LLM_JUDGE_ENABLED
                                    THEN Append(judge_log,
                                           [row |-> Len(results) + 1,
                                            failed |->
                                              JudgeBodyException(reply) # PyNone])
                                    ELSE judge_log
                    ELSE /\ results' = Append(results,
                                Result(resp, routing, conv, trn, ground_truth,
                                       empty_judge_scores,
                                       SkipError(reference_answer)))
                         /\ UNCHANGED judge_log
                 /\ UNCHANGED <<pc, opened, response_ids, ground_truth,
                                response_logs, conversations, report, exc,
                                returned, payload>>

\* After the loop: evaluate_logs writes the report when there are results
\* and returns them; eval_om drops the value and returns None.
EvaluateLogsReport ==
    /\ pc = "loop"
    /\ Len(results) = Len(Order)
    /\ report' = IF Len(results) > 0 THEN Some(results) ELSE report
    /\ returned' = [evaluate_logs |-> Some(results), eval_om |-> None]
    /\ pc' = "returned"
    /\ ground_truth' = EmptyDict
    /\ response_logs' = <<>>
    /\ conversations' = NoConversations
    /\ results' = <<>>
    /\ conv_idx' = -1
    /\ turn' = None
    /\ UNCHANGED <<opened, response_ids, judge_log, exc, payload>>

\* run_eval_job after eval_om returned or threw: the webhook payload.
RunEvalJobFinish ==
    /\ pc \in {"returned", "raised"}
    /\ payload' =
         Some(IF pc = "raised"
              THEN [status |-> "failed", result_file |-> PyNone,
                    total_items |-> 0, error |-> exc]
              ELSE [status |-> "success", result_file |-> "eval_<today>.csv",
                    total_items |->
                        IF returned.eval_om # None
                           /\ Len(returned.eval_om[1]) > 0
                        THEN Len(returned.eval_om[1]) ELSE 0,
                    error |-> PyNone])
    /\ pc' = "done"
    /\ UNCHANGED <<opened, response_ids, ground_truth, response_logs,
                   conversations, results, conv_idx, turn, judge_log, report,
                   exc, returned>>

Next ==
    \/ EvalOmLoadIds
    \/ EvalOmLoadGroundTruth
    \/ EvaluateLogsLoad
    \/ EvaluateLogsTurn
    \/ EvaluateLogsReport
    \/ RunEvalJobFinish

Spec == Init /\ [][Next]_vars

TypeOK ==
    /\ pc \in {"start", "ids", "gt", "loop", "returned", "raised", "done"}
    /\ conv_idx \in -1..MaxLog + 1
    /\ Len(results) <= Len(Order)

-----------------------------------------------------------------------------
(* Properties.  Inside the loop, row k of results is the row of the turn   *)
(* Order[k].                                                               *)

\* The exceptions of the loaders.
LoaderFailures == {"JSONDecodeError", "FileNotFoundError"}

\* The rows evaluate_logs returned, <<>> when it returned none.
Emitted ==
    IF returned.evaluate_logs = None THEN <<>> ELSE returned.evaluate_logs[1]

\* Whether the entry that row k was built from starts a conversation.
Boundary(k) == Falsy(Order[k].response.previous_response_id)

JudgeFieldsAbsent(row) ==
    /\ row.judge_correctness = None
    /\ row.judge_relevance = None
    /\ row.judge_usage_input = None
    /\ row.judge_usage_output = None

\* The rows of the judge requests sent so far.
JudgedRows == {judge_log[i].row : i \in DOMAIN judge_log}

\* C1: in a run of evaluate_logs whose identifier list is non-empty and
\* whose entries all carry a previous_response_id (null or not) and all
\* resolve to a routing record, every step of the loop emits one row for the
\* next entry and the run returns as many rows as the log has entries.
C1_OneRowPerEntry ==
    [][ ( /\ pc = "loop"
          /\ Len(response_ids) > 0
          /\ \A k \in DOMAIN Order :
               /\ Order[k].routing # None
               /\ "previous_response_id" \in DOMAIN Order[k].response )
        => \/ /\ pc' = "loop"
              /\ Len(results') = Len(results) + 1
           \/ /\ pc' = "returned"
              /\ Len(Emitted') = Len(response_logs) ]_vars

\* C2 as stated: no two rows of the result sequence have the same
\* response_id.
C2_UniqueResponseIds ==
    \A i, j \in DOMAIN results :
        i # j => results[i].response_id # results[j].response_id

\* C2 as amended: every row carries the response_id of its entry, the loop
\* visits every entry of the log exactly once, and so each response_id
\* appears in as many rows of the complete sequence as there are log entries
\* carrying it.
C2_ResponseIdsAsInLog ==
    pc = "loop" =>
      /\ \A k \in DOMAIN results :
           results[k].response_id = Order[k].response.response_id
      /\ \A x \in {"r1", "r2"} :
           Cardinality({k \in DOMAIN Order : Order[k].response.response_id = x})
             = Cardinality({i \in DOMAIN response_logs :
                              response_logs[i].response_id = x})
      /\ (Len(results) = Len(Order) =>
            \A x \in {"r1", "r2"} :
              Cardinality({k \in DOMAIN results : results[k].response_id = x})
                = Cardinality({i \in DOMAIN response_logs :
                                 response_logs[i].response_id = x}))

\* A complete result sequence in which two rows share a response_id.
C2_Witness ==
    /\ pc = "loop"
    /\ Len(results) = 2
    /\ Len(results) = Len(Order)
    /\ results[1].response_id = results[2].response_id

\* C3: conversation_id starts at 0, never decreases, grows by exactly 1 at
\* each entry with an empty previous_response_id and not otherwise; the
\* conversation_id of row k is the number of such entries among the first k,
\* minus 1.
C3_ConversationIds ==
    \A k \in DOMAIN results :
        /\ results[k].conversation_id =
             Cardinality({i \in 1..k : Boundary(i)}) - 1
        /\ k = 1 => results[k].conversation_id = 0
        /\ k > 1 =>
             results[k].conversation_id =
               results[k - 1].conversation_id + (IF Boundary(k) THEN 1 ELSE 0)

\* Two rows that open one conversation each.
C3_Witness ==
    /\ Len(results) = 2
    /\ results[1].conversation_id = 0
    /\ results[2].conversation_id = 1

\* C4: a row's turn is 1 exactly when its entry has an empty
\* previous_response_id, otherwise it is the previous row's turn plus 1,
\* also across response_id groups and whatever previous_response_id names.
C4_Turns ==
    \A k \in DOMAIN results :
        /\ results[k].turn = 1 <=> Boundary(k)
        /\ ~Boundary(k) =>
             /\ k > 1
             /\ results[k].turn = results[k - 1].turn + 1

\* The turn counter carried into another group, by an entry whose
\* previous_response_id names no response of the log.
C4_Witness ==
    /\ Len(results) = 2
    /\ results[1].response_id # results[2].response_id
    /\ ~Boundary(2)
    /\ results[2].turn = 2

\* C5: routing_correct is None when the expected source is empty (as it is
\* when the question has no ground truth) and otherwise tells whether the
\* expected source is one of the routing record's selected_sources.
C5_RoutingCorrect ==
    \A k \in DOMAIN results :
        LET row == results[k]
            selected == SelectedSources(Order[k].routing)
        IN  /\ row.question \notin DOMAIN ground_truth
                 => row.expected_sources = ""
            /\ row.question \in DOMAIN ground_truth
                 => row.expected_sources = ground_truth[row.question].source_name
            /\ row.expected_sources = "" => row.routing_correct = None
            /\ row.expected_sources # "" =>
                 /\ row.routing_correct # None
                 /\ row.routing_correct[1] <=>
                      \E i \in DOMAIN selected : selected[i] = row.expected_sources

\* A row without expected source next to a row whose expected source was
\* not selected although sources were.
C5_Witness ==
    /\ Len(results) = 2
    /\ results[1].expected_sources = ""
    /\ results[1].routing_correct = None
    /\ results[2].routing_correct = Some(FALSE)
    /\ results[2].selected_sources # ""

\* C6: a failed judge call (the request throws, the body is not JSON or not
\* an object, the usage metadata is missing) does not end the run: the step
\* that makes the call stays in the loop and emits the row, that row has the
\* four judge fields absent, and every field of every row outside the judge
\* fields is what the entry, its routing record and the ground truth
\* determine, whatever the judge answered.
C6_JudgeFailureIsolated ==
    /\ [][ judge_log' # judge_log =>
             /\ pc' = "loop"
             /\ Len(results') = Len(results) + 1
             /\ judge_log'[Len(judge_log')].row = Len(results') ]_vars
    /\ [](\A i \in DOMAIN judge_log :
            (pc = "loop" /\ judge_log[i].failed) =>
                JudgeFieldsAbsent(results[judge_log[i].row]))
    /\ [](\A k \in DOMAIN results :
            LET row == results[k]
                resp == Order[k].response
                routing == Order[k].routing[1]
                entry == Get(ground_truth, Get(routing, "question", ""),
                             EmptyDict)
            IN  /\ row.response_id = resp.response_id
                /\ row.question = Get(routing, "question", "")
                /\ row.generated_answer = resp.assistant_response
                /\ row.reference_answer = Get(entry, "answer", "")
                /\ row.expected_sources = Get(entry, "source_name", "")
                /\ row.conversation_id =
                     Cardinality({i \in 1..k : Boundary(i)}) - 1
                /\ k \in JudgedRows => row.error = "")

\* A failed judge call on the first row, followed by a second row.
C6_Witness ==
    /\ Len(results) = 2
    /\ Len(judge_log) >= 1
    /\ judge_log[1].row = 1
    /\ judge_log[1].failed
    /\ JudgeFieldsAbsent(results[1])

\* C7: the job fails only on a failure of a loader.
C7_OnlyLoaderFailuresFail ==
    (payload # None /\ payload[1].status = "failed") => exc \in LoaderFailures

\* C8: error is "No ground truth available" exactly when reference_answer is
\* empty (no ground truth for the question, or an empty answer); such a row
\* has no judge fields and is not sent to the judge; a row with a reference
\* but an empty generated answer has no judge fields, is not sent to the
\* judge and has an empty error.
C8_NoGroundTruthError ==
    \A k \in DOMAIN results :
        LET row == results[k]
        IN  /\ row.error = "No ground truth available"
                 <=> Falsy(row.reference_answer)
            /\ Falsy(row.reference_answer) <=>
                 \/ row.question \notin DOMAIN ground_truth
                 \/ Falsy(ground_truth[row.question].answer)
            /\ Falsy(row.reference_answer) =>
                 /\ JudgeFieldsAbsent(row)
                 /\ k \notin JudgedRows
            /\ (~Falsy(row.reference_answer) /\ Falsy(row.generated_answer)) =>
                 /\ JudgeFieldsAbsent(row)
                 /\ k \notin JudgedRows
                 /\ row.error = ""

\* A row whose question has ground truth with an empty answer, next to a row
\* with a reference and no generated answer.
C8_Witness ==
    /\ Len(results) = 2
    /\ results[1].question \in DOMAIN ground_truth
    /\ results[1].reference_answer = ""
    /\ results[1].error = "No ground truth available"
    /\ results[2].reference_answer # ""
    /\ results[2].generated_answer = ""

\* C9: with an empty identifier list the job opens no other file, produces
\* no rows, sends nothing to the judge, writes no report and ends with
\* status success; with a non-empty list the loop visits every entry of the
\* response log, whether or not the list names its response_id.
C9_EmptyIdentifierGate ==
    /\ ( /\ pc \in {"returned", "done"}
         /\ "response_ids" \in opened
         /\ exc = PyNone
         /\ Len(response_ids) = 0 )
       => /\ opened = {"response_ids"}
          /\ returned = NotReturned
          /\ judge_log = <<>>
          /\ report = None
          /\ pc = "done" =>
               /\ payload[1].status = "success"
               /\ payload[1].total_items = 0
    /\ pc = "loop" =>
          /\ Len(response_ids) > 0
          /\ Len(Order) = Len(response_logs)
          /\ \A i \in DOMAIN response_logs :
               \E k \in DOMAIN Order : Order[k].response = response_logs[i]

\* The job finished on an empty identifier list.
C9_Witness ==
    /\ pc = "done"
    /\ opened = {"response_ids"}
    /\ Len(response_ids) = 0
    /\ exc = PyNone
    /\ payload[1].status = "success"

\* C10: the payload of a successful job counts the rows the run produced.
C10_TotalItems ==
    (payload # None /\ payload[1].status = "success") =>
        payload[1].total_items = Len(Emitted)
====
